---- MODULE Spec2Model ----
(***************************************************************************)
(* Coin-intake decoder of the print kiosk (src/src/services/serial.ts)     *)
(* together with the balance ledger it shares with the HTTP payment        *)
(* handlers (src/src/routes/financial-routes.ts, copy-routes.ts).          *)
(*                                                                         *)
(* The decoder lives in one Node.js event loop.  parser.on("data") starts  *)
(* processToken without awaiting it, so a handler runs synchronously up to *)
(* its first await and its continuation runs later:                        *)
(*   - an await on I/O (incrementCoinStats and appendAdminLog of           *)
(*     services/admin, which write the db file and the audit log) resumes  *)
(*     in a later macrotask: any other callback may run in between;        *)
(*   - an await on an already settled promise (await flushPending when the *)
(*     flush did no I/O) resumes in a microtask: only code that is already *)
(*     on the stack, i.e. further "data" events emitted by the parser for  *)
(*     the same chunk, can run in between.                                 *)
(***************************************************************************)
EXTENDS Integers, Sequences, FiniteSets, TLC

VARIABLES
    balance,        \* db.data.balance
    earnings,       \* db.data.earnings
    pendingPrefix,  \* serial.ts:87   "1", "2" or NULL
    pendingTimer,   \* serial.ts:88   handle of the flush timer, or NULL_TIMER
    timers,         \* setTimeout callbacks scheduled and neither fired nor cleared
    tasks,          \* persistBalance calls suspended at an await on I/O
    micro,          \* processToken continuations queued as microtasks
    events,         \* history: increments, audit-log appends and io.emit calls, in order
    delivered,      \* history: the lines the parser delivered, with what each one saw
    prints,         \* HTTP payment requests suspended at await printFile
    requests,       \* history: number of HTTP requests received
    serialConnected,  \* serial.ts:12
    serialPortPath,   \* serial.ts:13
    serialLastError,  \* serial.ts:14
    conn,           \* where attemptSerialConnection stands, and the state of its port
    statusEvents,   \* history: the payloads of io.emit("serialStatus"), in order
    response,       \* the HTTP response sent last
    jobs            \* job-store.ts:73   the jobs of the JobStore, by id

decoderVars == <<balance, pendingPrefix, pendingTimer, timers, tasks, micro, events>>
connVars == <<serialConnected, serialPortPath, serialLastError, conn, statusEvents>>
httpVars == <<response, jobs>>
ledgerVars == <<balance, earnings, pendingPrefix, pendingTimer, timers, tasks, micro,
                events, delivered, prints, requests>>
vars == <<balance, earnings, pendingPrefix, pendingTimer, timers, tasks, micro,
          events, delivered, prints, requests, serialConnected, serialPortPath,
          serialLastError, conn, statusEvents, response, jobs>>

----------------------------------------------------------------------------
(* Bounds of the exploration *)

MaxTokens == 3

MaxLedgerTokens == 1

MaxCoinTokens == 2

MaxJobs == 2
MaxJobRequests == 4
MaxRequests == 2

MaxConnTokens == 3

MaxFaultTokens == 2

MaxLifeTokens == 1

MaxPortErrors == 1

----------------------------------------------------------------------------
(* Constants of the program *)

NULL == "null"

NULL_TIMER == 0

\* A denomination set that also holds 9.
ACCEPTED_COINS_With9 == {1, 5, 9, 10, 20}

\* A denomination set that lacks 20.
ACCEPTED_COINS_Without20 == {1, 5, 10}

ACCEPTED_COINS == {1, 5, 10, 20}

Digits == {"0", "1", "2", "3", "4", "5", "6", "7", "8", "9"}

\* The transport lines explored: each is a sequence of characters.
Lines ==
    { <<"x">>, <<"0">>, <<"1">>, <<"2">>, <<" ", "5", "\r">>, <<"9">> }

MAX_RETRIES == 12

\* ports[0].path of a machine with the coin acceptor plugged in
PortPath == "COM3"

\* Messages of the "error" events of an open port.
PortErrorMessages == { "Reading from COM3: Unknown error code 22" }

\* What SerialPort.list() or the opening of the port may throw: an Error with
\* a message, or a value that is no Error.
Errors ==
    { [isError |-> TRUE, message |-> "Opening COM3: Access denied"],
      [isError |-> TRUE, message |-> "Opening COM3: File not found"],
      [isError |-> FALSE, message |-> "access denied"] }

----------------------------------------------------------------------------
(* Pure helpers *)

\* getSerialStatus(), serial.ts:16-22, after the three variables are written
GetSerialStatus(connected, portPath, lastError) ==
    [connected |-> connected, portPath |-> portPath, lastError |-> lastError]

\* serialLastError.toLowerCase().includes("access denied"), serial.ts:217,
\* over the messages explored
IsAccessDenied(message) ==
    message \in { "Opening COM3: Access denied", "access denied" }

DigitVal(c) ==
    CASE c = "0" -> 0 [] c = "1" -> 1 [] c = "2" -> 2 [] c = "3" -> 3
      [] c = "4" -> 4 [] c = "5" -> 5 [] c = "6" -> 6 [] c = "7" -> 7
      [] c = "8" -> 8 [] c = "9" -> 9

\* A conversion that reads the first digit only.
Number_FirstDigit(token) == IF token = <<>> THEN 0 ELSE DigitVal(token[1])

\* Number(token) for a string of decimal digits.
RECURSIVE Number(_)
Number(token) ==
    IF token = <<>> THEN 0
    ELSE 10 * Number(SubSeq(token, 1, Len(token) - 1)) + DigitVal(token[Len(token)])

\* Number.isInteger(Number(token)): a digit string converts to a finite
\* integer-valued double unless it overflows to Infinity (309 digits or more).
NumberIsInteger(token) == Len(token) <= 308

IsDigit(c) == c \in Digits

\* A stripping whose empty result is read as the number 0 further on.
StripNonDigits_EmptyIsZero(rawLine) ==
    IF SelectSeq(rawLine, IsDigit) = <<>> THEN <<"0">> ELSE SelectSeq(rawLine, IsDigit)

\* rawLine.trim().replace(/[^0-9]/g, "")
StripNonDigits(rawLine) == SelectSeq(rawLine, IsDigit)

----------------------------------------------------------------------------
(* The decoder's closure state as one value, so that the source's helper   *)
(* functions become operators from state to state.                         *)

Cur ==
    [ balance |-> balance, pendingPrefix |-> pendingPrefix,
      pendingTimer |-> pendingTimer, timers |-> timers, tasks |-> tasks,
      micro |-> micro, events |-> events ]

Install(d) ==
    /\ balance' = d.balance
    /\ pendingPrefix' = d.pendingPrefix
    /\ pendingTimer' = d.pendingTimer
    /\ timers' = d.timers
    /\ tasks' = d.tasks
    /\ micro' = d.micro
    /\ events' = d.events

\* A clearPending that cancels the timer but keeps the prefix.
ClearPending_KeepsPrefix(d) ==
    [ d EXCEPT !.timers = IF d.pendingTimer # NULL_TIMER THEN @ \ {d.pendingTimer} ELSE @ ]

\* A clearPending that forgets the timer handle without cancelling the timer.
ClearPending_LeavesTimer(d) ==
    [ d EXCEPT !.pendingPrefix = NULL, !.pendingTimer = NULL_TIMER ]

\* A clearPending that cancels the timer and the prefix but keeps the handle.
ClearPending_KeepsHandle(d) ==
    [ d EXCEPT !.timers = IF d.pendingTimer # NULL_TIMER THEN @ \ {d.pendingTimer} ELSE @,
               !.pendingPrefix = NULL ]

\* clearPending, serial.ts:90-94
ClearPending(d) ==
    [ d EXCEPT !.timers = IF d.pendingTimer # NULL_TIMER THEN @ \ {d.pendingTimer} ELSE @,
               !.pendingPrefix = NULL,
               !.pendingTimer = NULL_TIMER ]

\* A rejection that is broadcast but not written to the audit log.
Warn_NoAudit(d, toks, code, reason) ==
    [ d EXCEPT !.events = Append(@,
        [kind |-> "coinParserWarning", toks |-> toks, code |-> code, reason |-> reason]) ]

\* io.emit("coinParserWarning", {code, message}) followed by
\* void appendAdminLog("coin_parser_warning", message, context).
\* toks: the tokens the rejection is about.
Warn(d, toks, code, reason) ==
    [ d EXCEPT !.events = @ \o
        << [kind |-> "coinParserWarning", toks |-> toks, code |-> code, reason |-> reason],
           [kind |-> "adminLog", type |-> "coin_parser_warning", toks |-> toks,
            reason |-> reason] >> ]

\* A processToken that returns after the flush and forgets its token.
QueueMicrotask_Drops(d, tok, rest) == d

\* The continuation of processToken after "await flushPending(...)" when the
\* flush settled without I/O: a microtask that runs lines 164-196 for token.
QueueMicrotask(d, tok, rest) ==
    IF rest = <<>> THEN d
    ELSE [ d EXCEPT !.micro = Append(@, [tok |-> tok, token |-> rest]) ]

\* A persistBalance that assigns the coin value instead of adding it.
PersistBalance_Overwrites(d, coinValue, toks, via, tok, rest) ==
    [ d EXCEPT !.balance = coinValue,
               !.events = Append(@, [kind |-> "credit", toks |-> toks,
                                     value |-> coinValue, bal |-> coinValue, via |-> via]),
               !.tasks = @ \cup { [pc |-> "stats", coinValue |-> coinValue,
                                   toks |-> toks, tok |-> tok, rest |-> rest] } ]

\* A persistBalance that subtracts the coin value.
PersistBalance_Subtracts(d, coinValue, toks, via, tok, rest) ==
    LET b == d.balance - coinValue IN
    [ d EXCEPT !.balance = b,
               !.events = Append(@, [kind |-> "credit", toks |-> toks,
                                     value |-> coinValue, bal |-> b, via |-> via]),
               !.tasks = @ \cup { [pc |-> "stats", coinValue |-> coinValue,
                                   toks |-> toks, tok |-> tok, rest |-> rest] } ]

\* persistBalance up to its first await, serial.ts:96-98.
\* toks: the tokens credited; via: what resolved them; tok: the token whose
\* handler is running (0 for the timer callback); rest: the token that
\* handler still has to process from line 164 once persistBalance returns.
PersistBalance(d, coinValue, toks, via, tok, rest) ==
    LET b == d.balance + coinValue IN
    [ d EXCEPT !.balance = b,
               !.events = Append(@, [kind |-> "credit", toks |-> toks,
                                     value |-> coinValue, bal |-> b, via |-> via]),
               !.tasks = @ \cup { [pc |-> "stats", coinValue |-> coinValue,
                                   toks |-> toks, tok |-> tok, rest |-> rest] } ]

\* A flushPending that credits whatever prefix is pending.
FlushPending_CreditsAnyPrefix(d, reason, tok, rest) ==
    IF d.pendingPrefix = NULL THEN QueueMicrotask(d, tok, rest)
    ELSE PersistBalance(ClearPending(d), Number(<<d.pendingPrefix>>),
                        {d.pendingTimer}, reason, tok, rest)

\* A flushPending that drops the fragment without resolving it.
FlushPending_Discards(d, reason, tok, rest) ==
    QueueMicrotask(ClearPending(d), tok, rest)

\* flushPending up to its first await, serial.ts:108-128
FlushPending(d, reason, tok, rest) ==
    IF d.pendingPrefix = NULL THEN QueueMicrotask(d, tok, rest)
    ELSE LET prefix == d.pendingPrefix
             p      == d.pendingTimer
             c      == ClearPending(d)
         IN  IF prefix = "1"
             THEN PersistBalance(c, 1, {p}, reason, tok, rest)
             ELSE QueueMicrotask(Warn(c, {p}, "INVALID_FRAGMENT", reason), tok, rest)

\* An armPending that credits the prefix "1" at once instead of waiting.
ArmPending_CreditsEagerly(d, prefix, tok) ==
    LET c == ClearPending(d)
        a == [ c EXCEPT !.pendingPrefix = prefix,
                        !.pendingTimer = tok,
                        !.timers = @ \cup {tok} ]
    IN  IF prefix = "1" THEN PersistBalance(a, 1, {tok}, "armed", tok, <<>>) ELSE a

\* An armPending that does not clear what was pending before.
ArmPending_NoClear(d, prefix, tok) ==
    [ d EXCEPT !.pendingPrefix = prefix,
               !.pendingTimer = tok,
               !.timers = @ \cup {tok} ]

\* armPending, serial.ts:130-137.  The timer handle is named after the token
\* whose handler arms it.
ArmPending(d, prefix, tok) ==
    LET c == ClearPending(d) IN
    [ c EXCEPT !.pendingPrefix = prefix,
               !.pendingTimer = tok,
               !.timers = @ \cup {tok} ]

\* A processToken tail that drops an unsupported value without a warning.
ProcessTokenTail_SilentUnsupported(d, token, tok) ==
    IF token = <<"1">> \/ token = <<"2">>
    THEN ArmPending(d, token[1], tok)
    ELSE IF Number(token) \notin ACCEPTED_COINS
    THEN d
    ELSE PersistBalance(d, Number(token), {tok}, "token", tok, <<>>)

\* A processToken tail that arms on any single digit that is no coin.
ProcessTokenTail_ArmsAnyDigit(d, token, tok) ==
    IF Len(token) = 1 /\ (Number(token) \notin ACCEPTED_COINS \/ token = <<"1">>)
    THEN ArmPending(d, token[1], tok)
    ELSE IF Number(token) \notin ACCEPTED_COINS
    THEN Warn(d, {tok}, "UNSUPPORTED_COIN", "value")
    ELSE PersistBalance(d, Number(token), {tok}, "token", tok, <<>>)

\* processToken from line 164 on, serial.ts:164-196
ProcessTokenTail(d, token, tok) ==
    IF token = <<"1">> \/ token = <<"2">>
    THEN ArmPending(d, token[1], tok)
    ELSE IF ~NumberIsInteger(token)
    THEN Warn(d, {tok}, "NON_NUMERIC", "token")
    ELSE IF Number(token) \notin ACCEPTED_COINS
    THEN Warn(d, {tok}, "UNSUPPORTED_COIN", "value")
    ELSE PersistBalance(d, Number(token), {tok}, "token", tok, <<>>)

\* A processToken that takes any token after a prefix for its continuation.
ProcessToken_CombinesAnyToken(d, token, tok) ==
    IF d.pendingPrefix # NULL
    THEN LET combined == Number(<<d.pendingPrefix>> \o token)
             p        == d.pendingTimer
             c        == ClearPending(d)
         IN  IF combined \in {1, 5, 10, 20}
             THEN PersistBalance(c, combined, {p, tok}, "combined", tok, <<>>)
             ELSE Warn(c, {p, tok}, "INVALID_COMBINATION", "combined")
    ELSE IF token = <<"1">> \/ token = <<"2">>
    THEN [ d EXCEPT !.pendingPrefix = token[1], !.pendingTimer = tok,
                    !.timers = @ \cup {tok} ]
    ELSE IF Number(token) \notin {1, 5, 10, 20}
    THEN Warn(d, {tok}, "UNSUPPORTED_COIN", "value")
    ELSE PersistBalance(d, Number(token), {tok}, "token", tok, <<>>)

\* processToken up to its first await, serial.ts:139-197
ProcessToken(d, token, tok) ==
    IF d.pendingPrefix # NULL
    THEN IF token = <<"0">>
         THEN LET combined == Number(<<d.pendingPrefix>> \o token)
                  p        == d.pendingTimer
                  c        == ClearPending(d)
              IN  IF combined \in ACCEPTED_COINS
                  THEN PersistBalance(c, combined, {p, tok}, "combined", tok, <<>>)
                  ELSE Warn(c, {p, tok}, "INVALID_COMBINATION", "combined")
         ELSE FlushPending(d, "interrupted", tok, token)
    ELSE ProcessTokenTail(d, token, tok)

----------------------------------------------------------------------------
(* Initial state: the port has just opened, serial.ts:87-88 *)

\* Before any request was answered.
NoResponse == [route |-> NULL, status |-> 0, req |-> 0]

Init ==
    /\ balance = 0
    /\ earnings = 0
    /\ pendingPrefix = NULL
    /\ pendingTimer = NULL_TIMER
    /\ timers = {}
    /\ tasks = {}
    /\ micro = <<>>
    /\ events = <<>>
    /\ delivered = <<>>
    /\ prints = {}
    /\ requests = 0
    /\ serialConnected = TRUE
    /\ serialPortPath = PortPath
    /\ serialLastError = NULL
    /\ conn = [pc |-> "connected", attempt |-> 0, port |-> "open", opened |-> 1,
               errors |-> 0, log |-> <<"serial_connected">>]
    /\ statusEvents = << [connected |-> TRUE, portPath |-> PortPath, lastError |-> NULL] >>
    /\ response = NoResponse
    /\ jobs = <<>>

----------------------------------------------------------------------------
(* Decoder actions *)

\* parser.on("data"), serial.ts:199-204.  A "data" event is a macrotask of its
\* own or follows another "data" event of the same chunk synchronously.
Deliver(rawLine) ==
    /\ conn.port = "open"
    /\ Len(delivered) < MaxTokens
    /\ LET token == StripNonDigits(rawLine)
           tok   == Len(delivered) + 1
       IN  /\ delivered' = Append(delivered,
                  [token |-> token, saw |-> pendingPrefix, sawTok |-> pendingTimer])
           /\ IF token = <<>>
              THEN UNCHANGED decoderVars
              ELSE Install(ProcessToken(Cur, token, tok))
    /\ UNCHANGED <<earnings, prints, requests>>
    /\ UNCHANGED <<connVars, httpVars>>

\* The microtask that resumes processToken after "await flushPending".
RunMicrotask ==
    /\ micro # <<>>
    /\ Install(ProcessTokenTail([Cur EXCEPT !.micro = Tail(@)],
                                Head(micro).token, Head(micro).tok))
    /\ UNCHANGED <<earnings, delivered, prints, requests>>
    /\ UNCHANGED <<connVars, httpVars>>

\* The setTimeout callback of armPending fires, serial.ts:134-136.
TimerFire(id) ==
    /\ micro = <<>>
    /\ id \in timers
    /\ Install(FlushPending([Cur EXCEPT !.timers = @ \ {id}], "timeout", 0, <<>>))
    /\ UNCHANGED <<earnings, delivered, prints, requests>>
    /\ UNCHANGED <<connVars, httpVars>>

\* A continuation that writes back the balance it computed before the await.
StatsDone_WritesBack(t) ==
    /\ micro = <<>>
    /\ t \in tasks
    /\ t.pc = "stats"
    /\ tasks' = (tasks \ {t}) \cup {[t EXCEPT !.pc = "log"]}
    /\ \E i \in DOMAIN events :
          /\ events[i].kind = "credit"
          /\ events[i].toks = t.toks
          /\ balance' = events[i].bal
    /\ events' = Append(events,
           [kind |-> "adminLog", type |-> "coin_accepted", toks |-> t.toks,
            value |-> t.coinValue, bal |-> balance'])
    /\ UNCHANGED <<earnings, pendingPrefix, pendingTimer, timers, micro,
                   delivered, prints, requests>>
    /\ UNCHANGED <<connVars, httpVars>>

\* incrementCoinStats settles; persistBalance calls appendAdminLog with the
\* balance it reads now, serial.ts:98-102.
StatsDone(t) ==
    /\ micro = <<>>
    /\ t \in tasks
    /\ t.pc = "stats"
    /\ tasks' = (tasks \ {t}) \cup {[t EXCEPT !.pc = "log"]}
    /\ events' = Append(events,
           [kind |-> "adminLog", type |-> "coin_accepted", toks |-> t.toks,
            value |-> t.coinValue, bal |-> balance])
    /\ UNCHANGED <<balance, earnings, pendingPrefix, pendingTimer, timers, micro,
                   delivered, prints, requests>>
    /\ UNCHANGED <<connVars, httpVars>>

\* appendAdminLog settles; persistBalance emits and returns, serial.ts:103-105,
\* and the processToken that awaited it through flushPending goes on at line 164.
LogDone(t) ==
    /\ micro = <<>>
    /\ t \in tasks
    /\ t.pc = "log"
    /\ LET d == [Cur EXCEPT
                   !.tasks = @ \ {t},
                   !.events = @ \o
                     << [kind |-> "balance", toks |-> t.toks, bal |-> balance],
                        [kind |-> "coinAccepted", toks |-> t.toks,
                         value |-> t.coinValue, bal |-> balance] >>]
       IN  Install(IF t.rest = <<>> THEN d ELSE ProcessTokenTail(d, t.rest, t.tok))
    /\ UNCHANGED <<earnings, delivered, prints, requests>>
    /\ UNCHANGED <<connVars, httpVars>>

DecoderNext ==
    \/ \E rawLine \in Lines : Deliver(rawLine)
    \/ RunMicrotask
    \/ \E id \in timers : TimerFire(id)
    \/ \E t \in tasks : StatsDone(t)
    \/ \E t \in tasks : LogDone(t)

Next == DecoderNext

Spec == Init /\ [][Next]_vars

\* The event loop runs every callback that is ready: a scheduled timer fires
\* unless it is cleared, a queued microtask runs, and the I/O of services/admin
\* settles.
Fairness ==
    /\ WF_vars(\E id \in timers : TimerFire(id))
    /\ WF_vars(RunMicrotask)
    /\ WF_vars(\E t \in tasks : StatsDone(t))
    /\ WF_vars(\E t \in tasks : LogDone(t))

SpecLive == Init /\ [][Next]_vars /\ Fairness

\* Whole-value tokens: every denomination on a line of its own, and a value
\* that is no coin.  None of these lines queues a microtask.
CoinLines == { <<"1">>, <<"5">>, <<"1", "0">>, <<"2", "0">>, <<"7">> }

CoinNext ==
    \/ \E rawLine \in CoinLines :
          Len(delivered) < MaxCoinTokens /\ Deliver(rawLine)
    \/ \E id \in timers : TimerFire(id)
    \/ \E t \in tasks : StatsDone(t)
    \/ \E t \in tasks : LogDone(t)

SpecCoins == Init /\ [][CoinNext]_vars

----------------------------------------------------------------------------
(* Pricing.  The server prices a job with calculateJobAmount of             *)
(* services/admin; the kiosk page computes the same price from the pricing  *)
(* settings, public/confirm/app.ts:39-58.                                   *)

printPerPage == 5

copyPerPage == 3

colorSurcharge == 2

Max(a, b) == IF a >= b THEN a ELSE b

CalculateJobAmount(mode, colorMode, copies) ==
    LET base  == IF mode = "copy" THEN copyPerPage ELSE printPerPage
        color == IF colorMode = "colored" THEN colorSurcharge ELSE 0
    IN  (base + color) * Max(1, copies)

ACCEPTED_TEST_COINS == {1, 5, 10, 20}

----------------------------------------------------------------------------
(* HTTP handlers that write the balance.  Each request is a macrotask; a    *)
(* handler suspended at "await printFile" is an element of prints.          *)

\* res.status(status).json(...): the response to request number req.
Respond(route, status, req) ==
    [route |-> route, status |-> status, req |-> req]

\* POST /api/balance/reset, financial-routes.ts:36-51
BalanceReset ==
    /\ micro = <<>>
    /\ requests < MaxRequests
    /\ requests' = requests + 1
    /\ balance' = 0
    /\ response' = Respond("/api/balance/reset", 200, requests + 1)
    /\ UNCHANGED <<earnings, pendingPrefix, pendingTimer, timers, tasks, micro,
                   events, delivered, prints, jobs>>
    /\ UNCHANGED connVars

\* POST /api/balance/add-test-coin, financial-routes.ts:56-81
AddTestCoin(value) ==
    /\ micro = <<>>
    /\ requests < MaxRequests
    /\ requests' = requests + 1
    /\ IF value \notin ACCEPTED_TEST_COINS
       THEN /\ UNCHANGED balance
            /\ response' = Respond("/api/balance/add-test-coin", 400, requests + 1)
       ELSE /\ balance' = balance + value
            /\ response' = Respond("/api/balance/add-test-coin", 200, requests + 1)
    /\ UNCHANGED <<earnings, pendingPrefix, pendingTimer, timers, tasks, micro,
                   events, delivered, prints, jobs>>
    /\ UNCHANGED connVars

\* A confirm-payment that takes the money before it prints.
ConfirmPayment_DebitsBeforePrint(mode, colorMode, copies, sessionOk) ==
    /\ micro = <<>>
    /\ requests < MaxRequests
    /\ requests' = requests + 1
    /\ LET requiredAmount == CalculateJobAmount(mode, colorMode, Max(1, copies)) IN
       IF mode \notin {"print", "copy"} \/ balance < requiredAmount
       THEN /\ UNCHANGED <<balance, earnings, prints>>
            /\ response' = Respond("/api/confirm-payment", 400, requests + 1)
       ELSE /\ balance' = balance - requiredAmount
            /\ earnings' = earnings + requiredAmount
            /\ IF mode = "print" /\ sessionOk
               THEN /\ prints' = prints \cup {[id |-> requests + 1, route |-> "confirm",
                                               amount |-> 0]}
                    /\ UNCHANGED response
               ELSE /\ UNCHANGED prints
                    /\ response' = Respond("/api/confirm-payment",
                                            IF mode = "print" THEN 404 ELSE 200,
                                            requests + 1)
    /\ UNCHANGED <<pendingPrefix, pendingTimer, timers, tasks, micro, events, delivered,
                   jobs>>
    /\ UNCHANGED connVars

\* POST /api/confirm-payment up to "await printFile", financial-routes.ts:147-283.
\* sessionOk: the session and the target document exist (lines 207-259); when
\* they do not, the handler answers 400 or 404 (404 here) and does nothing else.
ConfirmPayment(mode, colorMode, copies, sessionOk) ==
    /\ micro = <<>>
    /\ requests < MaxRequests
    /\ requests' = requests + 1
    /\ LET requiredAmount == CalculateJobAmount(mode, colorMode, Max(1, copies)) IN
       IF mode \notin {"print", "copy"} \/ balance < requiredAmount
       THEN /\ UNCHANGED <<balance, earnings, prints>>
            /\ response' = Respond("/api/confirm-payment", 400, requests + 1)
       ELSE IF mode = "print"
       THEN /\ UNCHANGED <<balance, earnings>>
            /\ IF sessionOk
               THEN /\ prints' = prints \cup {[id |-> requests + 1, route |-> "confirm",
                                               amount |-> requiredAmount]}
                    /\ UNCHANGED response
               ELSE /\ UNCHANGED prints
                    /\ response' = Respond("/api/confirm-payment", 404, requests + 1)
       ELSE /\ balance' = balance - requiredAmount
            /\ earnings' = earnings + requiredAmount
            /\ response' = Respond("/api/confirm-payment", 200, requests + 1)
            /\ UNCHANGED prints
    /\ UNCHANGED <<pendingPrefix, pendingTimer, timers, tasks, micro, events, delivered,
                   jobs>>
    /\ UNCHANGED connVars

\* POST /print up to "await printFile", financial-routes.ts:98-124
LegacyPrint ==
    /\ micro = <<>>
    /\ requests < MaxRequests
    /\ requests' = requests + 1
    /\ LET minimumAmount == CalculateJobAmount("print", "grayscale", 1) IN
       IF balance < minimumAmount
       THEN /\ UNCHANGED prints
            /\ response' = Respond("/print", 400, requests + 1)
       ELSE /\ prints' = prints \cup {[id |-> requests + 1, route |-> "print", amount |-> 0]}
            /\ UNCHANGED response
    /\ UNCHANGED <<balance, earnings, pendingPrefix, pendingTimer, timers, tasks, micro,
                   events, delivered, jobs>>
    /\ UNCHANGED connVars

\* The path of the route a suspended payment request came in by.
RouteOf(r) == IF r.route = "print" THEN "/print" ELSE "/api/confirm-payment"

\* A settlement that charges the legacy print the amount recorded at the
\* request instead of the whole balance.
PrintFileSettles_ForgetsEarnings(r, printed) ==
    /\ micro = <<>>
    /\ r \in prints
    /\ prints' = prints \ {r}
    /\ IF ~printed
       THEN UNCHANGED <<balance, earnings>>
       ELSE IF r.route = "print"
       THEN /\ earnings' = earnings + r.amount
            /\ balance' = 0
       ELSE /\ balance' = balance - r.amount
            /\ earnings' = earnings + r.amount
    /\ response' = Respond(RouteOf(r), IF printed THEN 200 ELSE 500, r.id)
    /\ UNCHANGED <<pendingPrefix, pendingTimer, timers, tasks, micro, events, delivered,
                   requests, jobs>>
    /\ UNCHANGED connVars

\* printFile settles and the suspended handler goes on:
\* financial-routes.ts:125-145 (/print) and 271-302 (confirm-payment).
PrintFileSettles(r, printed) ==
    /\ micro = <<>>
    /\ r \in prints
    /\ prints' = prints \ {r}
    /\ IF ~printed
       THEN UNCHANGED <<balance, earnings>>
       ELSE IF r.route = "print"
       THEN /\ earnings' = earnings + balance
            /\ balance' = 0
       ELSE /\ balance' = balance - r.amount
            /\ earnings' = earnings + r.amount
    /\ response' = Respond(RouteOf(r), IF printed THEN 200 ELSE 500, r.id)
    /\ UNCHANGED <<pendingPrefix, pendingTimer, timers, tasks, micro, events, delivered,
                   requests, jobs>>
    /\ UNCHANGED connVars

----------------------------------------------------------------------------
(* The job store, job-store.ts.  A job is [type, state, hist, pc]: hist is  *)
(* the history of the values written to job.state, and pc is where the      *)
(* job's runner (the async function started by the route) stands.           *)

\* JobState, job-store.ts:4-10
JobStates == { "queued", "running", "succeeded", "failed", "cancel_requested",
               "cancelled" }

\* createCopyJob / createScanJob, job-store.ts:75-110.  Ids are 1, 2, ...
CreateJob(js, type) ==
    Append(js, [type |-> type, state |-> "queued", hist |-> <<"queued">>,
                pc |-> "created"])

\* updateJobState, job-store.ts:116-132
UpdateJobState(js, id, state) ==
    IF id \notin DOMAIN js
    THEN js
    ELSE [js EXCEPT ![id].state = state, ![id].hist = Append(@, state)]

\* requestCancel, job-store.ts:134-142: the boolean returned and the store after.
RequestCancel(js, id) ==
    IF id \notin DOMAIN js \/ (js[id].state # "queued" /\ js[id].state # "running")
    THEN [ok |-> FALSE, jobs |-> js]
    ELSE [ok |-> TRUE,
          jobs |-> [js EXCEPT ![id].state = "cancel_requested",
                              ![id].hist = Append(@, "cancel_requested")]]

\* The runner starts synchronously inside the route: updateJobState(running),
\* then it waits for the device (copy-routes.ts:122-133, part_005:73-76).
StartRunner(js, id) ==
    [UpdateJobState(js, id, "running") EXCEPT ![id].pc = "device"]

\* POST /api/copy/jobs: the balance check, the debit, the job and the start
\* of its runner, copy-routes.ts:64-158
CopyJobPayment(colorMode, copies) ==
    /\ micro = <<>>
    /\ requests < MaxRequests
    /\ requests' = requests + 1
    /\ LET requiredAmount == CalculateJobAmount("copy", colorMode, Max(1, copies)) IN
       IF balance < requiredAmount
       THEN /\ UNCHANGED <<balance, earnings, jobs>>
            /\ response' = Respond("/api/copy/jobs", 400, requests + 1)
       ELSE /\ balance' = balance - requiredAmount
            /\ earnings' = earnings + requiredAmount
            /\ jobs' = StartRunner(CreateJob(jobs, "copy"), Len(jobs) + 1)
            /\ response' = Respond("/api/copy/jobs", 201, requests + 1)
    /\ UNCHANGED <<pendingPrefix, pendingTimer, timers, tasks, micro, events, delivered,
                   prints>>
    /\ UNCHANGED connVars

\* POST /api/scan/jobs, part_005:21-94.  valid: the settings pass lines 30-52.
ScanJobCreate(valid) ==
    /\ micro = <<>>
    /\ Len(jobs) < MaxJobs
    /\ requests < MaxJobRequests
    /\ requests' = requests + 1
    /\ IF ~valid
       THEN /\ UNCHANGED jobs
            /\ response' = Respond("/api/scan/jobs", 400, requests + 1)
       ELSE /\ jobs' = StartRunner(CreateJob(jobs, "scan"), Len(jobs) + 1)
            /\ response' = Respond("/api/scan/jobs", 201, requests + 1)
    /\ UNCHANGED <<balance, earnings, pendingPrefix, pendingTimer, timers, tasks, micro,
                   events, delivered, prints>>
    /\ UNCHANGED connVars

\* printFile or scan settles and the runner goes on: copy-routes.ts:133-154,
\* part_005:76-90.  The copy runner then awaits incrementJobStats.
DeviceSettles(id, ok) ==
    /\ micro = <<>>
    /\ id \in DOMAIN jobs
    /\ jobs[id].pc = "device"
    /\ jobs' = IF ~ok
               THEN [UpdateJobState(jobs, id, "failed") EXCEPT ![id].pc = "done"]
               ELSE [UpdateJobState(jobs, id, "succeeded") EXCEPT
                        ![id].pc = IF jobs[id].type = "copy" THEN "stats" ELSE "done"]
    /\ UNCHANGED <<ledgerVars, connVars, response>>

\* "await incrementJobStats" of the copy runner settles, copy-routes.ts:136-153:
\* when it rejects, the catch block of the runner marks the job failed.
JobStatsSettles(id, outcome) ==
    /\ micro = <<>>
    /\ id \in DOMAIN jobs
    /\ jobs[id].pc = "stats"
    /\ jobs' = IF outcome = "resolves"
               THEN [jobs EXCEPT ![id].pc = "done"]
               ELSE [UpdateJobState(jobs, id, "failed") EXCEPT ![id].pc = "done"]
    /\ UNCHANGED <<ledgerVars, connVars, response>>

\* POST /api/copy/jobs/:id/cancel, copy-routes.ts:170-182
CancelJob(id) ==
    /\ micro = <<>>
    /\ requests < MaxJobRequests
    /\ requests' = requests + 1
    /\ IF id \notin DOMAIN jobs
       THEN /\ UNCHANGED jobs
            /\ response' = Respond("/api/copy/jobs/:id/cancel", 404, requests + 1)
       ELSE LET cancelled == RequestCancel(jobs, id) IN
            /\ jobs' = cancelled.jobs
            /\ response' = Respond("/api/copy/jobs/:id/cancel",
                                   IF cancelled.ok THEN 202 ELSE 409, requests + 1)
    /\ UNCHANGED <<balance, earnings, pendingPrefix, pendingTimer, timers, tasks, micro,
                   events, delivered, prints>>
    /\ UNCHANGED connVars

ColorModes == {"colored", "grayscale"}

\* The "copies" fields explored; the handlers raise them to 1 at least.
CopiesInputs == {0, 2}

HttpNext ==
    \/ BalanceReset
    \/ \E value \in {5, 2} : AddTestCoin(value)
    \/ \E mode \in {"print", "copy", "scan"}, colorMode \in ColorModes,
          copies \in CopiesInputs, sessionOk \in BOOLEAN :
            ConfirmPayment(mode, colorMode, copies, sessionOk)
    \/ LegacyPrint
    \/ \E r \in prints, printed \in BOOLEAN : PrintFileSettles(r, printed)
    \/ \E colorMode \in ColorModes, copies \in CopiesInputs :
            CopyJobPayment(colorMode, copies)

\* The line explored together with the HTTP handlers: a coin of 5.  It arms no
\* timer and queues no microtask, so TimerFire and RunMicrotask have nothing to
\* do here.
LedgerLines == { <<" ", "5", "\r">> }

LedgerNext ==
    \/ \E rawLine \in LedgerLines :
          Len(delivered) < MaxLedgerTokens /\ Deliver(rawLine)
    \/ \E t \in tasks : StatsDone(t)
    \/ \E t \in tasks : LogDone(t)
    \/ HttpNext

SpecLedger == Init /\ [][LedgerNext]_vars

----------------------------------------------------------------------------
(* The connection lifecycle, serial.ts:24-85 and 205-237 *)

\* The state when initSerial is called: nothing connected, no decoder yet.
ConnInit ==
    /\ balance = 0
    /\ earnings = 0
    /\ pendingPrefix = NULL
    /\ pendingTimer = NULL_TIMER
    /\ timers = {}
    /\ tasks = {}
    /\ micro = <<>>
    /\ events = <<>>
    /\ delivered = <<>>
    /\ prints = {}
    /\ requests = 0
    /\ serialConnected = FALSE
    /\ serialPortPath = NULL
    /\ serialLastError = NULL
    /\ conn = [pc |-> "list", attempt |-> 0, port |-> "none", opened |-> 0,
               errors |-> 0, log |-> <<>>]
    /\ statusEvents = <<>>
    /\ response = NoResponse
    /\ jobs = <<>>


\* A catch block that allows one retry more.
CatchError_RetriesOnceMore(c, error) ==
    LET message == IF error.isError THEN error.message ELSE "Unknown serial error." IN
    /\ serialConnected' = FALSE
    /\ serialLastError' = message
    /\ conn' = IF IsAccessDenied(message) /\ c.attempt <= MAX_RETRIES
               THEN [c EXCEPT !.pc = "retryWait"]
               ELSE [c EXCEPT !.pc = "ended", !.log = Append(@, "serial_init_error")]
    /\ UNCHANGED statusEvents

\* The catch block, serial.ts:213-236.  c: the connection state when the
\* error is thrown.
CatchError(c, error) ==
    LET message == IF error.isError THEN error.message ELSE "Unknown serial error." IN
    /\ serialConnected' = FALSE
    /\ serialLastError' = message
    /\ conn' = IF IsAccessDenied(message) /\ c.attempt < MAX_RETRIES
               THEN [c EXCEPT !.pc = "retryWait"]
               ELSE [c EXCEPT !.pc = "ended", !.log = Append(@, "serial_init_error")]
    /\ UNCHANGED statusEvents

\* An enumeration that waits for a device to appear when it finds none.
ListSettles_RetriesWhenEmpty(found) ==
    /\ conn.pc = "list"
    /\ IF ~found
       THEN /\ serialConnected' = FALSE
            /\ serialPortPath' = NULL
            /\ serialLastError' = "No serial ports found."
            /\ conn' = [conn EXCEPT !.pc = "retryWait"]
       ELSE /\ serialPortPath' = PortPath
            /\ conn' = [conn EXCEPT !.pc = "opening", !.port = "opening"]
            /\ UNCHANGED <<serialConnected, serialLastError>>
    /\ UNCHANGED <<statusEvents, ledgerVars, httpVars>>

\* SerialPort.list() resolves, serial.ts:31-56.  The port is created and
\* starts to open; its decoder closure starts with no fragment pending.
ListSettles(found) ==
    /\ conn.pc = "list"
    /\ IF ~found
       THEN /\ serialConnected' = FALSE
            /\ serialPortPath' = NULL
            /\ serialLastError' = "No serial ports found."
            /\ conn' = [conn EXCEPT !.pc = "ended"]
       ELSE /\ serialPortPath' = PortPath
            /\ conn' = [conn EXCEPT !.pc = "opening", !.port = "opening"]
            /\ UNCHANGED <<serialConnected, serialLastError>>
    /\ UNCHANGED <<statusEvents, ledgerVars, httpVars>>

\* SerialPort.list() rejects, serial.ts:31 and 213-236
ListThrows(error) ==
    /\ conn.pc = "list"
    /\ CatchError(conn, error)
    /\ UNCHANGED <<serialPortPath, ledgerVars, httpVars>>

\* An open handler that leaves the last error in place.
PortOpen_KeepsError ==
    /\ conn.pc = "opening"
    /\ serialConnected' = TRUE
    /\ statusEvents' = Append(statusEvents,
                              GetSerialStatus(TRUE, serialPortPath, serialLastError))
    /\ conn' = [conn EXCEPT !.pc = "connected", !.port = "open", !.opened = @ + 1,
                            !.log = Append(@, "serial_connected")]
    /\ UNCHANGED <<serialPortPath, serialLastError, ledgerVars, httpVars>>

\* port.on("open"), serial.ts:63-69, and what follows resolve(), 206-210
PortOpen ==
    /\ conn.pc = "opening"
    /\ serialConnected' = TRUE
    /\ serialLastError' = NULL
    /\ statusEvents' = Append(statusEvents, GetSerialStatus(TRUE, serialPortPath, NULL))
    /\ conn' = [conn EXCEPT !.pc = "connected", !.port = "open", !.opened = @ + 1,
                            !.log = Append(@, "serial_connected")]
    /\ UNCHANGED <<serialPortPath, ledgerVars, httpVars>>

\* The open callback gets an error, serial.ts:58-62 and 213-236
OpenFails(error) ==
    /\ conn.pc = "opening"
    /\ CatchError([conn EXCEPT !.port = "failed"], error)
    /\ UNCHANGED <<serialPortPath, ledgerVars, httpVars>>

\* A retry that opens the path found before without listing the ports again.
RetryFires_ReusesPath ==
    /\ conn.pc = "retryWait"
    /\ micro = <<>>
    /\ conn' = [conn EXCEPT !.pc = "opening", !.attempt = @ + 1, !.port = "opening"]
    /\ UNCHANGED <<serialConnected, serialPortPath, serialLastError, statusEvents,
                   ledgerVars, httpVars>>

\* The retry timer fires and calls attemptSerialConnection(io, attempt + 1),
\* serial.ts:223
RetryFires ==
    /\ conn.pc = "retryWait"
    /\ micro = <<>>
    /\ conn' = [conn EXCEPT !.pc = "list", !.attempt = @ + 1, !.port = "none"]
    /\ UNCHANGED <<serialConnected, serialPortPath, serialLastError, statusEvents,
                   ledgerVars, httpVars>>

\* A close handler that starts a new connection attempt.
PortClose_Reconnects ==
    /\ conn.port = "open"
    /\ micro = <<>>
    /\ serialConnected' = FALSE
    /\ statusEvents' = Append(statusEvents,
                              GetSerialStatus(FALSE, serialPortPath, serialLastError))
    /\ conn' = [conn EXCEPT !.port = "closed", !.pc = "list"]
    /\ UNCHANGED <<serialPortPath, serialLastError, ledgerVars, httpVars>>

\* port.on("close"), serial.ts:71-75
PortClose ==
    /\ conn.port = "open"
    /\ micro = <<>>
    /\ serialConnected' = FALSE
    /\ statusEvents' = Append(statusEvents,
                              GetSerialStatus(FALSE, serialPortPath, serialLastError))
    /\ conn' = [conn EXCEPT !.port = "closed"]
    /\ UNCHANGED <<serialPortPath, serialLastError, ledgerVars, httpVars>>

\* An error handler that records the message but leaves the status connected.
PortError_StaysConnected(message) ==
    /\ conn.port = "open"
    /\ micro = <<>>
    /\ conn.errors < MaxPortErrors
    /\ serialLastError' = message
    /\ statusEvents' = Append(statusEvents,
                              GetSerialStatus(serialConnected, serialPortPath, message))
    /\ conn' = [conn EXCEPT !.errors = @ + 1]
    /\ UNCHANGED <<serialConnected, serialPortPath, ledgerVars, httpVars>>

\* port.on("error"), serial.ts:77-82.  The event does not close the port.
PortError(message) ==
    /\ conn.port = "open"
    /\ micro = <<>>
    /\ conn.errors < MaxPortErrors
    /\ serialConnected' = FALSE
    /\ serialLastError' = message
    /\ statusEvents' = Append(statusEvents,
                              GetSerialStatus(FALSE, serialPortPath, message))
    /\ conn' = [conn EXCEPT !.errors = @ + 1]
    /\ UNCHANGED <<serialPortPath, ledgerVars, httpVars>>

\* The lines explored together with the lifecycle.  "1" arms a fragment, and
\* a second "1" credits the first while a third may arrive.  None of them
\* queues a microtask.
ConnLines == { <<"1">> }

ConnNext ==
    \/ \E found \in BOOLEAN : ListSettles(found)
    \/ \E error \in Errors : ListThrows(error)
    \/ PortOpen
    \/ \E error \in Errors : OpenFails(error)
    \/ RetryFires
    \/ PortClose
    \/ \E rawLine \in ConnLines :
          Len(delivered) < MaxConnTokens /\ Deliver(rawLine)
    \/ \E id \in timers : TimerFire(id)
    \/ \E t \in tasks : StatsDone(t)
    \/ \E t \in tasks : LogDone(t)

SpecConn == ConnInit /\ [][ConnNext]_vars

\* The lifecycle with all its events.  One coin line shows whether a decoder
\* is fed; it arms no timer and queues no microtask.
LifeLines == { <<"5">> }

LifeNext ==
    \/ \E found \in BOOLEAN : ListSettles(found)
    \/ \E error \in Errors : ListThrows(error)
    \/ PortOpen
    \/ \E error \in Errors : OpenFails(error)
    \/ RetryFires
    \/ PortClose
    \/ \E message \in PortErrorMessages : PortError(message)
    \/ \E rawLine \in LifeLines :
          Len(delivered) < MaxLifeTokens /\ Deliver(rawLine)
    \/ \E t \in tasks : StatsDone(t)
    \/ \E t \in tasks : LogDone(t)

SpecLife == ConnInit /\ [][LifeNext]_vars

----------------------------------------------------------------------------
(* Failing collaborators.  persistBalance awaits incrementCoinStats and     *)
(* appendAdminLog (serial.ts:98-99); when the awaited promise rejects, the  *)
(* exception leaves persistBalance, then flushPending or processToken, and  *)
(* ends as the rejection of a promise nobody awaits (lines 135 and 203).    *)

\* How a call into the audit log or into persistence may settle.
AdminOutcomes == { "resolves", "rejects" }

\* A failed persistence step that takes the credit back.
StatsFails_RollsBack(t) ==
    /\ micro = <<>>
    /\ t \in tasks
    /\ t.pc = "stats"
    /\ tasks' = tasks \ {t}
    /\ balance' = balance - t.coinValue
    /\ events' = Append(events,
           [kind |-> "unhandledRejection", toks |-> t.toks, at |-> "incrementCoinStats"])
    /\ UNCHANGED <<earnings, pendingPrefix, pendingTimer, timers, micro,
                   delivered, prints, requests>>
    /\ UNCHANGED <<connVars, httpVars>>

\* "await incrementCoinStats(coinValue)" throws, serial.ts:98: persistBalance
\* ends there, and so does the processToken that awaited it.
StatsFails(t) ==
    /\ micro = <<>>
    /\ t \in tasks
    /\ t.pc = "stats"
    /\ tasks' = tasks \ {t}
    /\ events' = Append(events,
           [kind |-> "unhandledRejection", toks |-> t.toks, at |-> "incrementCoinStats"])
    /\ UNCHANGED <<balance, earnings, pendingPrefix, pendingTimer, timers, micro,
                   delivered, prints, requests>>
    /\ UNCHANGED <<connVars, httpVars>>

\* "await appendAdminLog(...)" throws, serial.ts:99-102: the two io.emit
\* calls of lines 104-105 are not reached.
LogFails(t) ==
    /\ micro = <<>>
    /\ t \in tasks
    /\ t.pc = "log"
    /\ tasks' = tasks \ {t}
    /\ events' = Append(events,
           [kind |-> "unhandledRejection", toks |-> t.toks, at |-> "appendAdminLog"])
    /\ UNCHANGED <<balance, earnings, pendingPrefix, pendingTimer, timers, micro,
                   delivered, prints, requests>>
    /\ UNCHANGED <<connVars, httpVars>>

\* The lines explored together with the failures.  None of them queues a
\* microtask.
FaultLines == { <<"1">>, <<"5">> }

FaultNext ==
    \/ \E rawLine \in FaultLines :
          Len(delivered) < MaxFaultTokens /\ Deliver(rawLine)
    \/ \E id \in timers : TimerFire(id)
    \/ \E t \in tasks : "resolves" \in AdminOutcomes /\ StatsDone(t)
    \/ \E t \in tasks : "rejects" \in AdminOutcomes /\ StatsFails(t)
    \/ \E t \in tasks : "resolves" \in AdminOutcomes /\ LogDone(t)
    \/ \E t \in tasks : "rejects" \in AdminOutcomes /\ LogFails(t)

SpecFaults == Init /\ [][FaultNext]_vars

----------------------------------------------------------------------------
(* Reading the history *)

EventsOf(kind, tok) ==
    { i \in DOMAIN events : events[i].kind = kind /\ tok \in events[i].toks }

CreditsOf(tok) == EventsOf("credit", tok)

WarningsOf(tok) == EventsOf("coinParserWarning", tok)

AcceptsOf(tok) == EventsOf("coinAccepted", tok)

\* The processToken call for token tok has returned.
HandlerDone(tok) ==
    /\ \A t \in tasks : t.tok # tok
    /\ \A i \in DOMAIN micro : micro[i].tok # tok

\* No persistBalance call for a credit of tok is still suspended.
CreditSettled(tok) == \A t \in tasks : tok \notin t.toks

\* Token k arrived while the fragment armed by token p was pending.
ArrivedWhileArmed(k, prefix) ==
    /\ k \in DOMAIN delivered
    /\ delivered[k].token # <<>>
    /\ delivered[k].saw = prefix

----------------------------------------------------------------------------
(* C1: every amount the decoder adds to the balance is one of 1, 5, 10, 20. *)
C1_OnlyDenominationsCredited ==
    [][balance' # balance => (balance' - balance) \in {1, 5, 10, 20}]_vars

C1_Witness ==
    /\ \E i \in DOMAIN events :
          events[i].kind = "credit" /\ events[i].value = 10
    /\ \E i \in DOMAIN events :
          events[i].kind = "coinParserWarning" /\ events[i].code = "INVALID_FRAGMENT"


----------------------------------------------------------------------------
(* C2: a prefix followed by "0" before the timer fires is credited as the    *)
(* combined value exactly once, with one acceptance event; the prefix is    *)
(* never credited or rejected on its own and its timer is gone for good.    *)
C2_CombinedCreditedOnce ==
    \A k \in DOMAIN delivered :
        (delivered[k].token = <<"0">> /\ delivered[k].saw \in {"1", "2"}) =>
            LET p == delivered[k].sawTok
                v == IF delivered[k].saw = "1" THEN 10 ELSE 20
            IN  /\ Cardinality(CreditsOf(k)) = 1
                /\ CreditsOf(p) = CreditsOf(k)
                /\ \A i \in CreditsOf(k) :
                      events[i].value = v /\ events[i].toks = {p, k}
                /\ WarningsOf(p) \cup WarningsOf(k) = {}
                /\ Cardinality(AcceptsOf(k)) <= 1
                /\ AcceptsOf(p) = AcceptsOf(k)
                /\ \A i \in AcceptsOf(k) : events[i].value = v
                /\ CreditSettled(k) => Cardinality(AcceptsOf(k)) = 1
                /\ p \notin timers

C2_Witness ==
    \E k \in DOMAIN delivered :
        /\ delivered[k].token = <<"0">>
        /\ delivered[k].saw = "2"
        /\ CreditSettled(k)
        /\ Len(delivered) = MaxTokens
        /\ \E i \in AcceptsOf(k) : events[i].value = 20

----------------------------------------------------------------------------
(* C3: every non-empty token ends in exactly one outcome, a credit or one   *)
(* rejection; none is dropped, not even a prefix that was armed.            *)

\* The fate of token tok is decided: its handler has returned and it is not
\* the fragment that is pending.
Resolved(tok) ==
    /\ HandlerDone(tok)
    /\ ~(pendingPrefix # NULL /\ pendingTimer = tok)

C3_EveryTokenOneOutcome ==
    \A k \in DOMAIN delivered :
        delivered[k].token # <<>> =>
            /\ Cardinality(CreditsOf(k)) + Cardinality(WarningsOf(k)) <= 1
            /\ Resolved(k) =>
                  Cardinality(CreditsOf(k)) + Cardinality(WarningsOf(k)) = 1

----------------------------------------------------------------------------
(* C4: the decoder never handles two tokens at once, and one credit's       *)
(* increment-persist-broadcast sequence ends before the next increment.     *)
C4_OneHandlerAtATime ==
    /\ Cardinality({ t.tok : t \in { u \in tasks : u.tok # 0 } }
                    \cup { micro[i].tok : i \in DOMAIN micro }) <= 1
    /\ Cardinality(tasks) <= 1

----------------------------------------------------------------------------
(* C5: the balance written to a credit's audit-log entry and carried by its *)
(* "balance" and "coinAccepted" broadcasts is the balance right after that  *)
(* credit's own increment.                                                  *)

ReportsBalance(e) ==
    \/ e.kind = "adminLog" /\ e.type = "coin_accepted"
    \/ e.kind = "balance"
    \/ e.kind = "coinAccepted"

C5_ReportedBalanceIsOwnResult ==
    \A i \in DOMAIN events :
        ReportsBalance(events[i]) =>
            \E j \in 1..(i - 1) :
                /\ events[j].kind = "credit"
                /\ events[j].toks = events[i].toks
                /\ events[j].bal = events[i].bal

----------------------------------------------------------------------------
(* C6: the balance is never negative, whatever the interleaving of credits, *)
(* resets and payments.                                                     *)
C6_BalanceNonNegative == balance >= 0

----------------------------------------------------------------------------
(* C7: when a valid denomination other than the continuation interrupts an  *)
(* armed "1", the prefix is credited as 1 first (increment and acceptance   *)
(* event) and only then the interrupting token: two credits, in order.      *)

InterruptsWithCoin(k) ==
    /\ ArrivedWhileArmed(k, "1")
    /\ delivered[k].token \notin {<<"0">>, <<"1">>, <<"2">>}
    /\ Number(delivered[k].token) \in {1, 5, 10, 20}

C7_PrefixThenInterruptingCoin ==
    \A k \in DOMAIN delivered :
        InterruptsWithCoin(k) =>
            LET p == delivered[k].sawTok IN
            /\ Cardinality(CreditsOf(p)) = 1
            /\ \A i \in CreditsOf(p) : events[i].value = 1 /\ events[i].toks = {p}
            /\ Cardinality(CreditsOf(k)) <= 1
            /\ \A j \in CreditsOf(k) :
                  /\ events[j].value = Number(delivered[k].token)
                  /\ events[j].toks = {k}
                  /\ \E i \in CreditsOf(p) : i < j
                  /\ \E a \in AcceptsOf(p) : a < j
            /\ Cardinality(AcceptsOf(p)) <= 1
            /\ Cardinality(AcceptsOf(k)) <= 1
            /\ WarningsOf(p) \cup WarningsOf(k) = {}
            /\ HandlerDone(k) =>
                  /\ Cardinality(CreditsOf(k)) = 1
                  /\ Cardinality(AcceptsOf(p)) = 1
                  /\ Cardinality(AcceptsOf(k)) = 1

C7_Witness ==
    \E k \in DOMAIN delivered :
        /\ InterruptsWithCoin(k)
        /\ HandlerDone(k)
        /\ \E j \in AcceptsOf(k) : events[j].value = 5

----------------------------------------------------------------------------
(* C8: an armed "1" that no token resolves is credited exactly once, by the *)
(* timer's firing: while it is armed nothing has been credited for it.      *)
C8_PrefixCreditedOnlyAtTimeout ==
    /\ [](pendingPrefix = "1" => CreditsOf(pendingTimer) = {})
    /\ [][\A id \in timers :
            (TimerFire(id) /\ pendingPrefix = "1") =>
                /\ id = pendingTimer
                /\ balance' = balance + 1
                /\ events' = Append(events,
                       [kind |-> "credit", toks |-> {id}, value |-> 1,
                        bal |-> balance + 1, via |-> "timeout"])
                /\ pendingPrefix' = NULL]_vars
    /\ [](\A p \in DOMAIN delivered :
            delivered[p].token = <<"1">> => Cardinality(CreditsOf(p)) <= 1)

C8_Witness ==
    \E p \in DOMAIN delivered :
        /\ delivered[p].token = <<"1">>
        /\ \E i \in CreditsOf(p) : events[i].via = "timeout"
        /\ CreditSettled(p)
        /\ balance = 1

----------------------------------------------------------------------------
(* C9: when the timer of an armed "2" fires, nothing is credited, exactly   *)
(* one rejection is emitted (warning and audit entry, reason timeout) and   *)
(* the decoder is idle again, with no fragment and no live timer.           *)
C9_TimeoutOfTwoRejects ==
    [][\A id \in timers :
         (TimerFire(id) /\ pendingPrefix = "2") =>
             /\ balance' = balance
             /\ tasks' = tasks
             /\ events' = events \o
                   << [kind |-> "coinParserWarning", toks |-> {id},
                       code |-> "INVALID_FRAGMENT", reason |-> "timeout"],
                      [kind |-> "adminLog", type |-> "coin_parser_warning",
                       toks |-> {id}, reason |-> "timeout"] >>
             /\ pendingPrefix' = NULL
             /\ pendingTimer' = NULL_TIMER
             /\ timers' = {}]_vars

C9_Witness ==
    /\ pendingPrefix = NULL
    /\ timers = {}
    /\ balance = 0
    /\ \E i \in DOMAIN events :
          /\ events[i].kind = "coinParserWarning"
          /\ events[i].reason = "timeout"

----------------------------------------------------------------------------
(* C10: "2" received in IDLE and then "9" before the timer fires.           *)

TwoThenNine(k) ==
    /\ ArrivedWhileArmed(k, "2")
    /\ delivered[k].token = <<"9">>
    /\ delivered[delivered[k].sawTok].saw = NULL
    /\ HandlerDone(k)

\* As claimed: no credit and one rejection, an "invalid combination".
C10_OneInvalidCombination ==
    \A k \in DOMAIN delivered :
        TwoThenNine(k) =>
            LET p == delivered[k].sawTok
                w == WarningsOf(p) \cup WarningsOf(k)
            IN  /\ CreditsOf(p) \cup CreditsOf(k) = {}
                /\ Cardinality(w) = 1
                /\ \A i \in w : events[i].code = "INVALID_COMBINATION"

\* As the decoder does it: no credit and two rejections, first the
\* interrupted fragment "2", then the unsupported value 9.
C10_FragmentThenUnsupported ==
    \A k \in DOMAIN delivered :
        TwoThenNine(k) =>
            LET p == delivered[k].sawTok IN
            /\ CreditsOf(p) \cup CreditsOf(k) = {}
            /\ Cardinality(WarningsOf(p)) = 1
            /\ Cardinality(WarningsOf(k)) = 1
            /\ \A i \in WarningsOf(p) :
                  /\ events[i].code = "INVALID_FRAGMENT"
                  /\ events[i].reason = "interrupted"
                  /\ \A j \in WarningsOf(k) : i < j
            /\ \A j \in WarningsOf(k) : events[j].code = "UNSUPPORTED_COIN"

C10_Witness ==
    \E k \in DOMAIN delivered : TwoThenNine(k) /\ Len(events) = 4

----------------------------------------------------------------------------
(* C11: a token received in IDLE that is neither a prefix digit nor a coin  *)
(* (7, 9, 0) credits nothing, is rejected once as an unsupported value and  *)
(* leaves the decoder in IDLE.                                              *)

UnsupportedLines == { <<"7">>, <<"9">>, <<"0">> }

C11_UnsupportedInIdle ==
    [][\A rawLine \in UnsupportedLines :
         (Deliver(rawLine) /\ pendingPrefix = NULL) =>
             /\ balance' = balance
             /\ tasks' = tasks
             /\ micro' = micro
             /\ pendingPrefix' = NULL
             /\ pendingTimer' = NULL_TIMER
             /\ timers' = timers
             /\ events' = events \o
                   << [kind |-> "coinParserWarning", toks |-> {Len(delivered) + 1},
                       code |-> "UNSUPPORTED_COIN", reason |-> "value"],
                      [kind |-> "adminLog", type |-> "coin_parser_warning",
                       toks |-> {Len(delivered) + 1}, reason |-> "value"] >>]_vars

C11_Witness ==
    /\ Len(delivered) = 1
    /\ delivered[1].token = <<"7">>
    /\ pendingPrefix = NULL
    /\ Cardinality(WarningsOf(1)) = 1

----------------------------------------------------------------------------
(* C12: a single token 1, 5, 10 or 20 received in IDLE and followed by no   *)
(* other token is credited exactly once, with exactly its value, and one    *)
(* acceptance event is emitted (for 1, once the fragment timer has fired).  *)

TokenOf(d) ==
    CASE d = 1 -> <<"1">> [] d = 5 -> <<"5">> [] d = 10 -> <<"1", "0">>
      [] d = 20 -> <<"2", "0">>

\* Nothing is pending or in flight.
Quiescent ==
    /\ tasks = {}
    /\ micro = <<>>
    /\ timers = {}
    /\ pendingPrefix = NULL

C12_SingleCoinCreditedOnce ==
    \A d \in {1, 5, 10, 20} :
        (Len(delivered) = 1 /\ delivered[1].token = TokenOf(d)) =>
            /\ Cardinality(CreditsOf(1)) <= 1
            /\ Cardinality(AcceptsOf(1)) <= 1
            /\ WarningsOf(1) = {}
            /\ \A i \in CreditsOf(1) \cup AcceptsOf(1) : events[i].value = d
            /\ balance = IF CreditsOf(1) = {} THEN 0 ELSE d
            /\ (d = 1 /\ 1 \in timers) => CreditsOf(1) = {}
            /\ Quiescent =>
                  /\ Cardinality(CreditsOf(1)) = 1
                  /\ Cardinality(AcceptsOf(1)) = 1

C12_Witness ==
    /\ Len(delivered) = 1
    /\ delivered[1].token = <<"2", "0">>
    /\ Quiescent
    /\ balance = 20

----------------------------------------------------------------------------
(* C13: a line with no digits, and a token whose value is neither a coin    *)
(* nor a prefix digit, never changes the balance and always produces        *)
(* exactly one rejection event, whether the decoder is IDLE or ARMED.       *)

UnsupportedTokens == { <<"0">>, <<"7">>, <<"9">> }

\* As stated: one rejection for each such line or token, and no credit.
C13_AlwaysOneRejection ==
    \A k \in DOMAIN delivered :
        (delivered[k].token = <<>> \/ delivered[k].token \in UnsupportedTokens) =>
            /\ CreditsOf(k) = {}
            /\ HandlerDone(k) => Cardinality(WarningsOf(k)) = 1

\* Token k is the "0" that completes a pending prefix.
IsContinuation(k) ==
    delivered[k].token = <<"0">> /\ delivered[k].saw # NULL

\* Amended: a line with no digits produces no event at all; a token whose
\* value is neither a coin nor a prefix digit, other than the "0" that
\* completes a pending prefix, is never credited and is rejected exactly
\* once as an unsupported value, in IDLE or ARMED.
C13_SilentOrRejectedOnce ==
    \A k \in DOMAIN delivered :
        /\ delivered[k].token = <<>> =>
              \A i \in DOMAIN events : k \notin events[i].toks
        /\ (delivered[k].token \in UnsupportedTokens /\ ~IsContinuation(k)) =>
              /\ CreditsOf(k) = {}
              /\ Cardinality(WarningsOf(k)) <= 1
              /\ \A i \in WarningsOf(k) : events[i].code = "UNSUPPORTED_COIN"
              /\ HandlerDone(k) => Cardinality(WarningsOf(k)) = 1

C13_Witness ==
    \E k, j \in DOMAIN delivered :
        /\ delivered[k].token = <<"9">>
        /\ delivered[k].saw = "1"
        /\ HandlerDone(k)
        /\ Cardinality(WarningsOf(k)) = 1
        /\ delivered[j].token = <<>>

----------------------------------------------------------------------------
(* C14: under decoder activity alone the balance never decreases from one   *)
(* step to the next.                                                        *)
C14_BalanceNeverDecreases == [][balance' >= balance]_vars

C14_Witness ==
    /\ balance >= 6
    /\ Cardinality({ i \in DOMAIN events : events[i].kind = "credit" }) >= 2

----------------------------------------------------------------------------
(* C16: credits in rapid succession lose no update: with no reset or debit  *)
(* in between, the balance is the initial balance plus the sum of the       *)
(* credited values, however the credits' continuations interleave.          *)

RECURSIVE SumValues(_, _)
\* The sum of the value fields of the events of one kind among the first n.
SumValues(kind, n) ==
    IF n = 0 THEN 0
    ELSE SumValues(kind, n - 1)
           + (IF events[n].kind = kind THEN events[n].value ELSE 0)

C16_NoLostCredit ==
    /\ balance = SumValues("credit", Len(events))
    /\ tasks = {} => balance = SumValues("coinAccepted", Len(events))

C16_Witness ==
    /\ Cardinality(tasks) = 2
    /\ \E t \in tasks : t.pc = "log"
    /\ balance >= 6

----------------------------------------------------------------------------
(* C17: every rejection leaves the balance unchanged and produces exactly   *)
(* one parser-warning broadcast, carrying a code and a message, and exactly *)
(* one audit-log entry.                                                     *)

WarningCodes == { "INVALID_FRAGMENT", "INVALID_COMBINATION", "NON_NUMERIC", "UNSUPPORTED_COIN" }

IsWarning(e) == e.kind = "coinParserWarning"

IsWarningAudit(e) == e.kind = "adminLog" /\ e.type = "coin_parser_warning"

C17_RejectionOneWarningOneAudit ==
    /\ [](\A i \in DOMAIN events :
            /\ IsWarning(events[i]) =>
                  /\ events[i].code \in WarningCodes
                  /\ i + 1 \in DOMAIN events
                  /\ IsWarningAudit(events[i + 1])
                  /\ events[i + 1].toks = events[i].toks
                  /\ events[i + 1].reason = events[i].reason
            /\ IsWarningAudit(events[i]) =>
                  /\ i - 1 \in DOMAIN events
                  /\ IsWarning(events[i - 1]))
    /\ [][(\E i \in DOMAIN events' : i > Len(events) /\ IsWarning(events'[i])) =>
            /\ balance' = balance
            /\ Cardinality({ i \in DOMAIN events' :
                               i > Len(events) /\ IsWarning(events'[i]) }) = 1]_vars

C17_Witness ==
    \E i, j \in DOMAIN events :
        /\ IsWarning(events[i]) /\ events[i].code = "INVALID_FRAGMENT"
        /\ IsWarning(events[j]) /\ events[j].code = "UNSUPPORTED_COIN"
        /\ balance > 0

----------------------------------------------------------------------------
(* C18: once a token has resolved an armed fragment, the fragment's timer   *)
(* is cancelled and never flushes anything; no fragment is resolved more    *)
(* than once; a timer only ever flushes the fragment it was armed for.      *)
C18_TimerOnlyForOwnFragment ==
    /\ [](\A k \in DOMAIN delivered :
            /\ (delivered[k].saw # NULL /\ delivered[k].token # <<>>) =>
                  delivered[k].sawTok \notin timers
            /\ Cardinality(CreditsOf(k)) + Cardinality(WarningsOf(k)) <= 1)
    /\ [][\A id \in timers :
            TimerFire(id) =>
                /\ pendingPrefix # NULL
                /\ pendingTimer = id
                /\ \A i \in DOMAIN events' : i > Len(events) => events'[i].toks = {id}]_vars

C18_Witness ==
    \E k \in DOMAIN delivered :
        /\ delivered[k].saw = "1"
        /\ delivered[k].token = <<"0">>
        /\ CreditsOf(k) # {}
        /\ pendingPrefix # NULL
        /\ timers = {pendingTimer}
        /\ pendingTimer > k

----------------------------------------------------------------------------
(* C20: a line that is empty after stripping produces no event and leaves   *)
(* the pending prefix, the timer and the balance as they were, in IDLE and  *)
(* in ARMED.                                                                *)

NoDigits(rawLine) == \A i \in DOMAIN rawLine : rawLine[i] \notin Digits

C20_EmptyLineChangesNothing ==
    [][\A rawLine \in Lines :
         (Deliver(rawLine) /\ NoDigits(rawLine)) =>
             UNCHANGED <<balance, earnings, pendingPrefix, pendingTimer, timers,
                         tasks, micro, events>>]_vars

C20_Witness ==
    \E k \in DOMAIN delivered :
        /\ delivered[k].token = <<>>
        /\ delivered[k].saw = "1"
        /\ pendingPrefix = "1"
        /\ pendingTimer = delivered[k].sawTok
        /\ timers = {pendingTimer}
        /\ events = <<>>

----------------------------------------------------------------------------
(* C15: among all operations that write the balance, the administrative     *)
(* reset is the only one that can take a positive balance down to zero.     *)

\* As stated: a step from a positive balance to zero is a reset.
C15_OnlyResetZeroes ==
    [][(balance > 0 /\ balance' = 0) => BalanceReset]_vars

\* A payment handler writes the balance in this step.
PaymentDebit ==
    \/ \E r \in prints : PrintFileSettles(r, TRUE)
    \/ \E colorMode \in ColorModes, copies \in CopiesInputs :
          \/ ConfirmPayment("copy", colorMode, copies, TRUE)
          \/ CopyJobPayment(colorMode, copies)

\* Amended: only the reset and the payment debits take a positive balance
\* to zero; no decoder credit and no test-coin insertion does.
C15_OnlyResetOrDebitZeroes ==
    [][(balance > 0 /\ balance' = 0) => (BalanceReset \/ PaymentDebit)]_vars

C15_Witness ==
    /\ balance = 0
    /\ earnings = 5
    /\ requests = 2
    /\ delivered = <<>>

----------------------------------------------------------------------------
(* C19: in every reachable state at most one fragment is pending in the     *)
(* whole system, also across connection retries and while the credits of    *)
(* earlier tokens are still awaiting completion.                            *)

\* The fragments whose timers are scheduled: each waits to be resolved.
PendingFragments == timers

C19_AtMostOnePendingFragment ==
    /\ Cardinality(PendingFragments) <= 1
    /\ pendingPrefix # NULL => PendingFragments \subseteq {pendingTimer}
    /\ conn.opened <= 1
    /\ conn.opened = 0 => (PendingFragments = {} /\ pendingPrefix = NULL)

C19_Witness ==
    /\ conn.attempt >= 1
    /\ pendingPrefix = "1"
    /\ PendingFragments = {pendingTimer}
    /\ tasks # {}

----------------------------------------------------------------------------
(* C21: if appending the audit-log entry of a credit fails, the credit is   *)
(* neither blocked nor failed: the balance holds the credited value, the    *)
(* "balance" and "coinAccepted" broadcasts of that credit are still         *)
(* emitted, and the decoder goes on handling later tokens.                  *)

\* The audit append of the credit of token tok was rejected.
LogFailedFor(tok) ==
    \E i \in DOMAIN events :
        /\ events[i].kind = "unhandledRejection"
        /\ events[i].at = "appendAdminLog"
        /\ tok \in events[i].toks

C21_LogFailureKeepsBroadcasts ==
    \A tok \in DOMAIN delivered :
        (LogFailedFor(tok) /\ CreditSettled(tok)) =>
            /\ balance = SumValues("credit", Len(events))
            /\ EventsOf("balance", tok) # {}
            /\ AcceptsOf(tok) # {}

----------------------------------------------------------------------------
(* C22: if the persistence step of a credit fails, the credit is not        *)
(* dropped: the in-memory balance already includes the credited value and   *)
(* keeps it afterwards.                                                     *)

\* The persistence step of the credit of token tok was rejected.
StatsFailedFor(tok) ==
    \E i \in DOMAIN events :
        /\ events[i].kind = "unhandledRejection"
        /\ events[i].at = "incrementCoinStats"
        /\ tok \in events[i].toks

C22_FailedPersistenceKeepsCredit ==
    /\ [](\A tok \in DOMAIN delivered :
            StatsFailedFor(tok) =>
                /\ Cardinality(CreditsOf(tok)) = 1
                /\ balance = SumValues("credit", Len(events)))
    /\ [][\A t \in tasks : StatsFails(t) => balance' = balance]_vars

C22_Witness ==
    /\ \E tok \in DOMAIN delivered : StatsFailedFor(tok)
    /\ balance = 6
    /\ tasks = {}

----------------------------------------------------------------------------
(* C23: every armed fragment is eventually resolved: from any ARMED state,  *)
(* with a timer that fires unless it is cancelled, the decoder returns to   *)
(* IDLE with the fragment credited (alone or combined) or rejected; it      *)
(* never stays ARMED forever.                                               *)

\* The fragment armed by token p is the one pending.
ArmedBy(p) == pendingPrefix # NULL /\ pendingTimer = p

C23_ArmedEventuallyResolved ==
    \A p \in 1..MaxTokens :
        ArmedBy(p) ~> (~ArmedBy(p) /\ (CreditsOf(p) # {} \/ WarningsOf(p) # {}))

----------------------------------------------------------------------------
(* C24: when the enumeration finds no serial device, the status becomes     *)
(* connected=false, portPath=null with the "no devices" error recorded, no  *)
(* port is opened, no decoder is fed and no retry is scheduled.             *)
C24_NoDeviceEndsQuietly ==
    /\ [][ListSettles(FALSE) =>
            /\ serialConnected' = FALSE
            /\ serialPortPath' = NULL
            /\ serialLastError' = "No serial ports found."
            /\ conn'.pc = "ended"
            /\ conn'.port = "none"
            /\ statusEvents' = statusEvents]_vars
    /\ [][(conn.pc = "ended" /\ conn.port = "none") =>
            /\ conn' = conn
            /\ delivered' = <<>>
            /\ UNCHANGED <<serialConnected, serialPortPath, serialLastError>>]_vars

C24_Witness ==
    /\ conn.pc = "ended"
    /\ conn.attempt >= 1
    /\ serialConnected = FALSE
    /\ serialPortPath = NULL
    /\ serialLastError = "No serial ports found."
    /\ delivered = <<>>

----------------------------------------------------------------------------
(* C25: when the port opens, on the first attempt or on a retry, the status *)
(* becomes connected=true with lastError cleared to null, a status          *)
(* broadcast is emitted and no further connection attempt is scheduled.     *)
C25_OpenConnectsOnce ==
    /\ [][PortOpen =>
            /\ serialConnected' = TRUE
            /\ serialLastError' = NULL
            /\ statusEvents' = Append(statusEvents,
                  [connected |-> TRUE, portPath |-> PortPath, lastError |-> NULL])]_vars
    /\ [][conn.opened > 0 =>
            /\ conn'.pc = "connected"
            /\ conn'.attempt = conn.attempt
            /\ conn'.opened = 1]_vars

C25_Witness ==
    /\ conn.pc = "connected"
    /\ conn.attempt >= 1
    /\ serialConnected = TRUE
    /\ serialLastError = NULL
    /\ delivered # <<>>

----------------------------------------------------------------------------
(* C26: when every open attempt fails with an access-denied error, retries  *)
(* are scheduled one at a time, there are never more than 12 of them, and   *)
(* once they are used up no attempt is ever scheduled again: the status     *)
(* stays connected=false with the last error recorded.                      *)
C26_RetriesBounded ==
    /\ [](conn.attempt <= 12)
    /\ [][RetryFires =>
            /\ IsAccessDenied(serialLastError)
            /\ conn'.attempt = conn.attempt + 1
            /\ conn'.pc = "list"]_vars
    /\ [][(conn.pc = "ended" /\ conn.attempt = 12) =>
            /\ conn' = conn
            /\ serialConnected = FALSE
            /\ serialLastError # NULL
            /\ UNCHANGED <<serialConnected, serialLastError>>]_vars

C26_Witness ==
    /\ conn.pc = "ended"
    /\ conn.attempt = 12
    /\ conn.opened = 0
    /\ serialConnected = FALSE
    /\ serialLastError = "Opening COM3: Access denied"

----------------------------------------------------------------------------
(* C27: when an open attempt fails with an error that is not access-denied, *)
(* no retry is scheduled, the status is marked as error (connected=false,   *)
(* lastError set to the failure message) and a status broadcast is emitted. *)
C27_OtherFailureIsBroadcast ==
    [][OpenFails([isError |-> TRUE, message |-> "Opening COM3: File not found"]) =>
         /\ conn'.pc = "ended"
         /\ serialConnected' = FALSE
         /\ serialLastError' = "Opening COM3: File not found"
         /\ statusEvents' = Append(statusEvents,
               [connected |-> FALSE, portPath |-> PortPath,
                lastError |-> "Opening COM3: File not found"])]_vars

----------------------------------------------------------------------------
(* C28: after a connected port closes or reports an error at runtime, the   *)
(* status becomes connected=false (with lastError set on an error), a       *)
(* status broadcast is emitted, no new connection attempt is ever started   *)
(* and connected never becomes true again.                                  *)
C28_RuntimeLossIsFinal ==
    /\ [][PortClose =>
            /\ serialConnected' = FALSE
            /\ statusEvents' = Append(statusEvents,
                  [connected |-> FALSE, portPath |-> PortPath,
                   lastError |-> serialLastError])]_vars
    /\ [][\A message \in PortErrorMessages :
            PortError(message) =>
                /\ serialConnected' = FALSE
                /\ serialLastError' = message
                /\ statusEvents' = Append(statusEvents,
                      [connected |-> FALSE, portPath |-> PortPath,
                       lastError |-> message])]_vars
    /\ [][(conn.port = "closed" \/ conn.errors > 0) =>
            /\ serialConnected' = FALSE
            /\ conn'.pc = "connected"
            /\ conn'.attempt = conn.attempt
            /\ conn'.opened = 1]_vars

C28_Witness ==
    /\ conn.port = "closed"
    /\ conn.errors = 1
    /\ serialConnected = FALSE
    /\ serialLastError = "Reading from COM3: Unknown error code 22"
    /\ Len(statusEvents) = 3

----------------------------------------------------------------------------
(* C29: when prefix "2" is armed and a token other than "0" arrives before  *)
(* the timer fires, the prefix is rejected as an interrupted invalid        *)
(* fragment (one warning, no credit) before the interrupting token's own    *)
(* outcome, and the interrupting token is then handled as from IDLE.        *)

\* Token k arrived while a prefix "2" was pending and is not its continuation.
InterruptsTwo(k) ==
    /\ delivered[k].saw = "2"
    /\ delivered[k].token \notin { <<>>, <<"0">> }

\* What the step makes of the token h.token of handler h.tok when it is
\* processed as from IDLE.
IdleOutcome(h) ==
    /\ h.token \in { <<"1">>, <<"2">> } =>
          /\ pendingPrefix' = h.token[1]
          /\ pendingTimer' = h.tok
          /\ timers' = {h.tok}
          /\ UNCHANGED <<balance, events, tasks>>
    /\ h.token = <<"5">> =>
          /\ balance' = balance + 5
          /\ events' = Append(events, [kind |-> "credit", toks |-> {h.tok},
                                       value |-> 5, bal |-> balance + 5, via |-> "token"])
          /\ UNCHANGED <<pendingPrefix, pendingTimer, timers>>
    /\ h.token = <<"9">> =>
          /\ events' = events \o
                << [kind |-> "coinParserWarning", toks |-> {h.tok},
                    code |-> "UNSUPPORTED_COIN", reason |-> "value"],
                   [kind |-> "adminLog", type |-> "coin_parser_warning",
                    toks |-> {h.tok}, reason |-> "value"] >>
          /\ UNCHANGED <<balance, pendingPrefix, pendingTimer, timers, tasks>>

C29_TwoInterrupted ==
    /\ [](\A k \in DOMAIN delivered :
            InterruptsTwo(k) =>
                LET p == delivered[k].sawTok IN
                /\ CreditsOf(p) = {}
                /\ Cardinality(WarningsOf(p)) = 1
                /\ \A i \in WarningsOf(p) :
                      /\ events[i].code = "INVALID_FRAGMENT"
                      /\ events[i].reason = "interrupted"
                      /\ \A j \in DOMAIN events : k \in events[j].toks => j > i
                /\ (HandlerDone(k) /\ delivered[k].token \in { <<"5">>, <<"9">> }) =>
                      Cardinality(CreditsOf(k)) + Cardinality(WarningsOf(k)) = 1)
    /\ [][RunMicrotask => IdleOutcome(Head(micro))]_vars

C29_Witness ==
    \E k \in DOMAIN delivered :
        /\ InterruptsTwo(k)
        /\ delivered[k].token = <<"5">>
        /\ HandlerDone(k)
        /\ Cardinality(WarningsOf(delivered[k].sawTok)) = 1
        /\ Cardinality(AcceptsOf(k)) = 1

----------------------------------------------------------------------------
(* C30: when a prefix p is armed and another prefix token q arrives before  *)
(* the timer fires, p is resolved by the interruption rule and the decoder  *)
(* ends ARMED with q and a fresh timer, so "1","1","0" yields a credit of 1 *)
(* followed by a credit of 10 and nothing else.                             *)

\* The prefix token k interrupted a pending prefix and has itself neither
\* timed out nor been resolved yet.
InterruptingPrefixWaits(k) ==
    /\ k \in DOMAIN delivered
    /\ delivered[k].token \in { <<"1">>, <<"2">> }
    /\ delivered[k].saw # NULL
    /\ CreditsOf(k) = {}
    /\ WarningsOf(k) = {}

C30_PrefixInterruptsPrefix ==
    [][(/\ Deliver(<<"0">>)
        /\ Len(delivered) = 2
        /\ delivered[1].token = <<"1">>
        /\ delivered[2].token = <<"1">>
        /\ InterruptingPrefixWaits(2)) =>
           /\ \E i \in DOMAIN events' :
                 /\ i > Len(events)
                 /\ events'[i].kind = "credit"
                 /\ events'[i].value = 10
                 /\ events'[i].toks = {2, 3}
           /\ \A i \in DOMAIN events' : ~IsWarning(events'[i])]_vars

----------------------------------------------------------------------------
(* C31: each retry enumerates the devices again before it opens one; if a   *)
(* retry's enumeration finds no device, the retry cycle ends there with the *)
(* "no devices" error recorded and no further retry, although fewer than    *)
(* the maximum number of retries were made.                                 *)
C31_RetryEnumeratesAgain ==
    /\ [][RetryFires => (conn'.pc = "list" /\ conn'.port = "none")]_vars
    /\ [][conn'.pc = "opening" => (conn.pc = "list" \/ conn.pc = "opening")]_vars
    /\ [][(ListSettles(FALSE) /\ conn.attempt >= 1) =>
            /\ conn'.pc = "ended"
            /\ conn'.attempt = conn.attempt
            /\ serialLastError' = "No serial ports found."]_vars
    /\ [][(conn.pc = "ended" /\ serialLastError = "No serial ports found.") =>
            (conn' = conn /\ serialLastError' = serialLastError)]_vars

C31_Witness ==
    /\ conn.pc = "ended"
    /\ conn.attempt = 3
    /\ conn.port = "none"
    /\ serialLastError = "No serial ports found."

----------------------------------------------------------------------------
(* C32: in every reachable state of the decoder a flush timer is live if    *)
(* and only if a fragment is pending, and at most one is live; arming       *)
(* cancels any previous timer first and every resolution clears prefix and  *)
(* timer together.                                                          *)
C32_TimerIffPending ==
    /\ (pendingPrefix # NULL) <=> (timers # {})
    /\ (pendingPrefix # NULL) <=> (pendingTimer # NULL_TIMER)
    /\ timers \subseteq {pendingTimer}
    /\ Cardinality(timers) <= 1

C32_Witness ==
    /\ pendingPrefix = "2"
    /\ pendingTimer = 3
    /\ timers = {3}
    /\ tasks # {}
    /\ \E k \in DOMAIN delivered : delivered[k].saw = "1"

----------------------------------------------------------------------------
(* C33: whenever the decoder is ARMED with prefix p and receives "0", it    *)
(* credits 10 or 20 (p followed by 0); with the prefixes "1" and "2" the    *)
(* "invalid combination" rejection is never emitted.                        *)
C33_ContinuationAlwaysCredits ==
    /\ [][(Deliver(<<"0">>) /\ pendingPrefix # NULL) =>
            LET v == IF pendingPrefix = "1" THEN 10 ELSE 20 IN
            /\ balance' = balance + v
            /\ events' = Append(events,
                  [kind |-> "credit", toks |-> {pendingTimer, Len(delivered) + 1},
                   value |-> v, bal |-> balance + v, via |-> "combined"])
            /\ pendingPrefix' = NULL]_vars
    /\ [](\A i \in DOMAIN events :
            IsWarning(events[i]) => events[i].code # "INVALID_COMBINATION")

C33_Witness ==
    \E i \in DOMAIN events :
        /\ events[i].kind = "credit"
        /\ events[i].via = "combined"
        /\ events[i].value = 20
        /\ \E k \in AcceptsOf(2) : events[k].value = 20

----------------------------------------------------------------------------
(* C34: in every reachable state of the connection lifecycle the status     *)
(* returned by getSerialStatus satisfies: connected=true implies            *)
(* lastError=null and portPath is not null.                                 *)
C34_ConnectedMeansNoError ==
    /\ serialConnected = TRUE => (serialLastError = NULL /\ serialPortPath # NULL)
    /\ \A i \in DOMAIN statusEvents :
          statusEvents[i].connected = TRUE =>
              (statusEvents[i].lastError = NULL /\ statusEvents[i].portPath # NULL)

C34_Witness ==
    /\ serialConnected = TRUE
    /\ conn.attempt = 2
    /\ serialLastError = NULL
    /\ serialPortPath = PortPath
    /\ delivered # <<>>

----------------------------------------------------------------------------
\* The routes of the payment operations: confirm-payment, the legacy /print
\* and the payment of a copy job.
PaymentRoutes == { "/api/confirm-payment", "/print", "/api/copy/jobs" }

\* A step of one of the payment operations: it answers a request of one of
\* these routes, or it leaves the request waiting for printFile.
PaymentStep ==
    \/ prints' # prints
    \/ response' # response /\ response'.route \in PaymentRoutes

\* The step sent a response of this route.  Every response carries the
\* number of its request, so a new response differs from the one before.
Answers(route) ==
    /\ response' # response
    /\ response'.route = route

\* The step sent an error response.
AnswersError ==
    /\ response' # response
    /\ response'.status >= 400

\* The step made a coin credit: a new "credit" entry in the history.
CreditStep ==
    \E i \in DOMAIN events' :
        i > Len(events) /\ events'[i].kind = "credit"

(* C35: every payment operation (confirm-payment, copy-job payment, legacy  *)
(* /print) moves money from the balance to the earnings without creating or *)
(* destroying any: balance + earnings is the same before and after, so the  *)
(* sum only changes through coin credits and administrative resets.         *)
C35_PaymentsConserveMoney ==
    /\ [][PaymentStep => balance' + earnings' = balance + earnings]_vars
    /\ [][balance' + earnings' # balance + earnings =>
            \/ CreditStep
            \/ Answers("/api/balance/add-test-coin")
            \/ Answers("/api/balance/reset")]_vars

C35_Witness ==
    /\ earnings = 5
    /\ balance = 5
    /\ prints = {}
    /\ response.route = "/print"
    /\ response.status = 200

----------------------------------------------------------------------------
(* C36: in confirm-payment with mode "print" the debit happens only after   *)
(* the print call succeeded: when the balance is insufficient, the session  *)
(* or document is missing, or the printer reports an error, balance and     *)
(* earnings are unchanged and the request ends with an error response.      *)
C36_PrintDebitAfterPrinting ==
    /\ [][(Answers("/api/confirm-payment") /\ AnswersError) =>
            (balance' = balance /\ earnings' = earnings /\ prints' \subseteq prints)]_vars
    /\ [][(prints' # prints \/ Answers("/api/confirm-payment")) /\ ~AnswersError =>
            \A colorMode \in ColorModes, copies \in CopiesInputs, sessionOk \in BOOLEAN :
              ConfirmPayment("print", colorMode, copies, sessionOk) =>
                /\ balance' = balance
                /\ earnings' = earnings
                /\ balance >= CalculateJobAmount("print", colorMode, Max(1, copies))
                /\ sessionOk]_vars
    /\ [][\A r \in prints \ prints' :
            r.route = "confirm" =>
                /\ PrintFileSettles(r, FALSE) =>
                      /\ balance' = balance
                      /\ earnings' = earnings
                      /\ AnswersError
                      /\ response'.req = r.id
                /\ PrintFileSettles(r, TRUE) =>
                      /\ balance' = balance - r.amount
                      /\ earnings' = earnings + r.amount]_vars

C36_Witness ==
    /\ balance = 5
    /\ earnings = 0
    /\ response.route = "/api/confirm-payment"
    /\ response.status = 500

----------------------------------------------------------------------------
(* Copy and scan jobs: a coin is inserted, jobs are created and paid, their *)
(* runners go on when the device and the statistics settle, and clients ask *)
(* for cancellation at any moment.                                          *)

\* The coin that pays for the copies comes in through the test-coin route.
JobsNext ==
    \/ AddTestCoin(5)
    \/ \E colorMode \in ColorModes, copies \in CopiesInputs :
          Len(jobs) < MaxJobs /\ CopyJobPayment(colorMode, copies)
    \/ \E valid \in BOOLEAN : ScanJobCreate(valid)
    \/ \E id \in DOMAIN jobs, ok \in BOOLEAN : DeviceSettles(id, ok)
    \/ \E id \in DOMAIN jobs, outcome \in AdminOutcomes : JobStatsSettles(id, outcome)
    \/ \E id \in 1..(MaxJobs + 1) : CancelJob(id)

SpecJobs == Init /\ [][JobsNext]_vars

\* The states in which a job is finished.
TerminalStates == { "succeeded", "failed" }

\* The step answered a cancel request with this status.
CancelAnswered(status) ==
    /\ Answers("/api/copy/jobs/:id/cancel")
    /\ response'.status = status

\* requestCancel accepts exactly the jobs that exist and are queued or
\* running, and changes nothing otherwise.
CancelAcceptsOnlyActive ==
    [][\A id \in 1..(MaxJobs + 1) : CancelJob(id) =>
          IF id \in DOMAIN jobs /\ jobs[id].state \in {"queued", "running"}
          THEN /\ CancelAnswered(202)
               /\ jobs'[id].state = "cancel_requested"
               /\ \A other \in DOMAIN jobs \ {id} : jobs'[other] = jobs[other]
          ELSE /\ ~CancelAnswered(202)
               /\ jobs' = jobs]_vars

(* C37: JobStore.requestCancel returns true and moves the job to            *)
(* 'cancel_requested' exactly when the job exists and is 'queued' or        *)
(* 'running'; otherwise it returns false and changes nothing; and once a    *)
(* job is 'succeeded' or 'failed', no sequence of cancel requests and       *)
(* job-runner steps changes its state again.                                *)
C37_CancelOnlyActiveTerminalFinal ==
    /\ CancelAcceptsOnlyActive
    /\ [][\A id \in DOMAIN jobs :
            jobs[id].state \in TerminalStates => jobs'[id].state = jobs[id].state]_vars

----------------------------------------------------------------------------
\* s is a beginning of t.
IsPrefix(s, t) ==
    /\ Len(s) <= Len(t)
    /\ \A i \in DOMAIN s : s[i] = t[i]

\* queued, running, optionally cancel_requested, then succeeded or failed.
JobPaths ==
    { <<"queued", "running", end>> : end \in TerminalStates } \cup
    { <<"queued", "running", "cancel_requested", end>> : end \in TerminalStates }

(* C38: every copy or scan job follows queued, running, optionally          *)
(* cancel_requested, then succeeded or failed: 'cancelled' is never         *)
(* reached, and a job whose cancellation was accepted still ends in         *)
(* 'succeeded' or 'failed', as the runner decides when the device call      *)
(* returns.                                                                 *)
C38_JobLifecycle ==
    \A id \in DOMAIN jobs :
        /\ \E path \in JobPaths : IsPrefix(jobs[id].hist, path)
        /\ jobs[id].state # "cancelled"
        /\ jobs[id].pc # "device" =>
              /\ jobs[id].state \in TerminalStates
              /\ jobs[id].hist \in JobPaths

====
